---- MODULE Spec2Model ----
(***************************************************************************)
(* TabledapPlotter (erddapgraph/tabledap/__init__.py) as a state machine.  *)
(*                                                                         *)
(* Python strings are sequences of one-character strings, so that          *)
(* formatting, joining and percent-encoding are computed character by      *)
(* character.  Python's None is the value None below.  An ordered dict is  *)
(* a sequence of [k, v] records with pairwise distinct keys, in insertion  *)
(* order.                                                                  *)
(***************************************************************************)
EXTENDS Integers, Sequences, FiniteSets, TLC

(***************************************************************************)
(* Bounds of the model.                                                    *)
(***************************************************************************)
\* most entries the constraint dict holds
MaxConstraints == 2
\* most plot parameter keys that differ from the default mapping at once
MaxOverrides == 2
\* most calls followed after a successful build before the next build
MaxStale == 1

(***************************************************************************)
(* Strings.                                                                *)
(***************************************************************************)
None == <<"None">>

S_tabledap == <<"t", "a", "b", "l", "e", "d", "a", "p">>
S_png == <<"p", "n", "g">>
S_pdf == <<"p", "d", "f">>
S_http == <<"h", "t", "t", "p">>
S_serverA == <<"h", "t", "t", "p", ":", "/", "/", "a">>
S_serverB == <<"h", "t", "t", "p", ":", "/", "/", "b">>
S_shortcutB == <<"b">>
S_unknownServer == <<"n", "o">>
S_d1 == <<"d", "1">>
S_d2 == <<"d", "2">>
S_d3 == <<"d", "3">>
S_dX == <<"d", "X">>
S_time == <<"t", "i", "m", "e">>
S_depth == <<"d", "e", "p", "t", "h">>
S_temp == <<"t", "e", "m", "p">>
S_nope == <<"n", "o", "p", "e">>
S_ge == <<">", "=">>
S_le == <<"<", "=">>
S_ne == <<"!", "=">>
S_badop == <<"=", ">">>
S_2020 == <<"2", "0", "2", "0">>
S_NaN == <<"N", "a", "N">>
S_Linear == <<"L", "i", "n", "e", "a", "r">>
S_Log == <<"L", "o", "g">>
S_Rainbow2 == <<"R", "a", "i", "n", "b", "o", "w", "2">>
S_KT == <<"K", "T">>
S_Bottom == <<"B", "o", "t", "t", "o", "m">>
S_Off == <<"O", "f", "f">>
S_markers == <<"m", "a", "r", "k", "e", "r", "s">>
S_lines == <<"l", "i", "n", "e", "s">>
S_Circle == <<"C", "i", "r", "c", "l", "e">>
S_Dot == <<"D", "o", "t">>
S_black == <<"b", "l", "a", "c", "k">>
S_white == <<"w", "h", "i", "t", "e">>
S_hexred == <<"f", "f", "0", "0", "0", "0">>
S_FF == <<"F", "F">>
S_7f == <<"7", "f">>
S_ff == <<"f", "f">>
S_zz == <<"z", "z">>
S_in == <<"i", "n">>
S_out == <<"o", "u", "t">>

K_bgColor == <<".", "b", "g", "C", "o", "l", "o", "r", "=">>
K_color == <<".", "c", "o", "l", "o", "r", "=">>
K_colorBar == <<".", "c", "o", "l", "o", "r", "B", "a", "r", "=">>
K_draw == <<".", "d", "r", "a", "w", "=">>
K_legend == <<".", "l", "e", "g", "e", "n", "d", "=">>
K_marker == <<".", "m", "a", "r", "k", "e", "r", "=">>
K_xRange == <<".", "x", "R", "a", "n", "g", "e", "=">>
K_yRange == <<".", "y", "R", "a", "n", "g", "e", "=">>
K_zoom == <<".", "z", "o", "o", "m", "=">>
K_trim == <<".", "t", "r", "i", "m", "=">>
\* the key the size property looks up
K_size == <<".", "s", "i", "z", "e", "=">>

\* s.startswith(prefix)
StartsWith(s, prefix) ==
    /\ Len(s) >= Len(prefix)
    /\ SubSeq(s, 1, Len(prefix)) = prefix

\* sep.join(parts)
RECURSIVE Join(_, _)
Join(sep, parts) ==
    IF parts = <<>> THEN <<>>
    ELSE IF Len(parts) = 1 THEN parts[1]
    ELSE parts[1] \o sep \o Join(sep, Tail(parts))

\* not x, for a string or None
Falsy(s) == s = None \/ s = <<>>

(***************************************************************************)
(* urllib.parse.quote(s), safe='/': letters, digits and "_.-~/" are kept,  *)
(* every other character becomes %XX (upper-case hex of its byte).         *)
(***************************************************************************)
Letters ==
    {"a", "b", "c", "d", "e", "f", "g", "h", "i", "j", "k", "l", "m",
     "n", "o", "p", "q", "r", "s", "t", "u", "v", "w", "x", "y", "z",
     "A", "B", "C", "D", "E", "F", "G", "H", "I", "J", "K", "L", "M",
     "N", "O", "P", "Q", "R", "S", "T", "U", "V", "W", "X", "Y", "Z"}

Digits == {"0", "1", "2", "3", "4", "5", "6", "7", "8", "9"}

AlwaysSafe == Letters \cup Digits \cup {"_", ".", "-", "~", "/"}

PercentCode ==
    [c \in {" ", "!", "&", "(", ")", ",", ":", "<", "=", ">", "?", "|", "%"} |->
        CASE c = " " -> <<"%", "2", "0">>
          [] c = "!" -> <<"%", "2", "1">>
          [] c = "%" -> <<"%", "2", "5">>
          [] c = "&" -> <<"%", "2", "6">>
          [] c = "(" -> <<"%", "2", "8">>
          [] c = ")" -> <<"%", "2", "9">>
          [] c = "," -> <<"%", "2", "C">>
          [] c = ":" -> <<"%", "3", "A">>
          [] c = "<" -> <<"%", "3", "C">>
          [] c = "=" -> <<"%", "3", "D">>
          [] c = ">" -> <<"%", "3", "E">>
          [] c = "?" -> <<"%", "3", "F">>
          [] c = "|" -> <<"%", "7", "C">>]

QuoteChar(c) == IF c \in AlwaysSafe THEN <<c>> ELSE PercentCode[c]

RECURSIVE quote(_)
quote(s) == IF s = <<>> THEN <<>> ELSE QuoteChar(Head(s)) \o quote(Tail(s))

(***************************************************************************)
(* Ordered dicts.                                                          *)
(***************************************************************************)
DictKeys(d) == {d[i].k : i \in DOMAIN d}

DictHas(d, key) == key \in DictKeys(d)

DictGet(d, key) == d[CHOOSE i \in DOMAIN d : d[i].k = key].v

\* d[key] = value, d.update({key: value}): an existing key keeps its place
DictSet(d, key, value) ==
    IF DictHas(d, key)
    THEN [i \in DOMAIN d |-> IF d[i].k = key THEN [k |-> key, v |-> value] ELSE d[i]]
    ELSE Append(d, [k |-> key, v |-> value])

\* d.pop(key), for a key that is present
DictPop(d, key) == SelectSeq(d, LAMBDA e : e.k # key)

(***************************************************************************)
(* Python values passed where the code inspects the type or the truth      *)
(* value of an argument: t is the type, v is str(value).                   *)
(***************************************************************************)
PyNone == [t |-> "none", v |-> <<"N", "o", "n", "e">>]
PyTrue == [t |-> "bool", v |-> <<"T", "r", "u", "e">>]
PyFalse == [t |-> "bool", v |-> <<"F", "a", "l", "s", "e">>]
PyInt(digits) == [t |-> "int", v |-> digits]
PyFloat(repr) == [t |-> "float", v |-> repr]
PyStr(s) == [t |-> "str", v |-> s]

\* not x
PyFalsy(x) ==
    \/ x.t = "none"
    \/ x.t = "bool" /\ x = PyFalse
    \/ x.t = "int" /\ x.v = <<"0">>
    \/ x.t = "float" /\ x.v = <<"0", ".", "0">>
    \/ x.t = "str" /\ x.v = <<>>

\* '{:}'.format(x)
Format(x) == x.v

\* isinstance(x, int): bool is a subclass of int
IsInstanceInt(x) == x.t \in {"int", "bool"}

\* isinstance(x, bool)
IsInstanceBool(x) == x.t = "bool"

LowerAlphabet ==
    <<"a", "b", "c", "d", "e", "f", "g", "h", "i", "j", "k", "l", "m",
      "n", "o", "p", "q", "r", "s", "t", "u", "v", "w", "x", "y", "z">>

UpperAlphabet ==
    <<"A", "B", "C", "D", "E", "F", "G", "H", "I", "J", "K", "L", "M",
      "N", "O", "P", "Q", "R", "S", "T", "U", "V", "W", "X", "Y", "Z">>

UpperChar(c) ==
    IF \E i \in 1..26 : LowerAlphabet[i] = c
    THEN UpperAlphabet[CHOOSE i \in 1..26 : LowerAlphabet[i] = c]
    ELSE c

LowerChar(c) ==
    IF \E i \in 1..26 : UpperAlphabet[i] = c
    THEN LowerAlphabet[CHOOSE i \in 1..26 : UpperAlphabet[i] = c]
    ELSE c

\* s.upper(), s.lower()
Upper(s) == [i \in DOMAIN s |-> UpperChar(s[i])]
Lower(s) == [i \in DOMAIN s |-> LowerChar(s[i])]

\* x in list
InList(x, list) == \E i \in DOMAIN list : list[i] = x

\* list.index(x), zero-based position of the first occurrence
ListIndex(list, x) ==
    (CHOOSE i \in DOMAIN list :
        list[i] = x /\ \A j \in DOMAIN list : list[j] = x => i <= j) - 1

\* str(n) for a list position
IntStr(n) == <<CHOOSE c \in Digits :
    c = <<"0", "1", "2", "3", "4", "5", "6", "7", "8", "9">>[n + 1]>>

(***************************************************************************)
(* The option catalog, erddapgraph.plot_options, as loaded from            *)
(* config/tabledap-options.yml.                                            *)
(***************************************************************************)
plot_options ==
    [image_types |-> <<S_png, S_pdf>>,
     legend_options |-> <<S_Bottom, S_Off, <<"O", "n", "l", "y">>>>,
     line_styles |-> <<S_lines, <<"l", "i", "n", "e", "s", "A", "n", "d", "M", "a", "r", "k", "e", "r", "s">>,
                       S_markers, <<"s", "t", "i", "c", "k", "s">>>>,
     marker_types |-> <<<<"N", "o", "n", "e">>, <<"P", "l", "u", "s">>, <<"X">>, S_Dot,
                        <<"S", "q", "u", "a", "r", "e">>,
                        <<"F", "i", "l", "l", "e", "d", " ", "S", "q", "u", "a", "r", "e">>,
                        S_Circle,
                        <<"F", "i", "l", "l", "e", "d", " ", "C", "i", "r", "c", "l", "e">>>>,
     colors |-> <<[k |-> S_black, v |-> <<"0", "0", "0", "0", "0", "0">>],
                  [k |-> S_white, v |-> <<"F", "F", "F", "F", "F", "F">>]>>,
     opacities |-> <<<<"0", "0">>, S_7f, S_FF>>,
     continuous_options |-> <<<<"C">>, <<"D">>>>,
     scale_options |-> <<S_Linear, S_Log>>,
     color_bars |-> <<S_Rainbow2, S_KT>>,
     zoom_levels |-> <<S_in, S_out>>,
     operators |-> <<<<"=">>, S_ne, <<"<">>, S_le, <<">">>, S_ge>>]

\* the option types __init__ looks for in the loaded options
option_types ==
    {"image_types", "legend_options", "line_styles", "marker_types", "colors", "opacities",
     "continuous_options", "scale_options", "color_bars", "zoom_levels", "operators"}

\* the options files a session is started with: complete, or lacking one type
CatalogGaps == {{}} \cup {{option_type} : option_type \in option_types}

\* self._hex_regex.fullmatch(color): ^[a-z0-9]{6}$ with re.IGNORECASE
HexRegexMatch(color) ==
    /\ Len(color) = 6
    /\ \A i \in DOMAIN color : color[i] \in Letters \cup Digits

\* erddapy.servers: shortcut name -> server url
servers == <<[k |-> S_shortcutB, v |-> S_serverB]>>

(***************************************************************************)
(* The ERDDAP servers' answers.                                            *)
(***************************************************************************)
\* the datasetID column of allDatasets.csv
ServerIndex(srv) == IF srv = S_serverA THEN {S_d1, S_d2} ELSE {S_d2, S_d3}

\* the rows of info/{dataset_id}/index.csv
ServerInfo(srv, id) ==
    LET names == IF srv = S_serverA /\ id = S_d1 THEN <<S_time, S_depth, S_temp>>
                 ELSE IF id = S_d2 THEN <<S_time, S_depth>>
                 ELSE <<S_time, S_temp>>
    IN  <<[row_type |-> "attribute", variable_name |-> <<"N", "C", "_", "G", "L", "O", "B", "A", "L">>]>>
        \o [i \in DOMAIN names |-> [row_type |-> "variable", variable_name |-> names[i]]]
        \o <<[row_type |-> "attribute", variable_name |-> S_nope]>>

\* pd.DataFrame()
EmptyFrame == <<>>

(***************************************************************************)
(* State.                                                                  *)
(***************************************************************************)
VARIABLES
    server,                  \* self._e.server
    response,                \* self._e.response
    datasets,                \* self._datasets: [index, columns]
    num_datasets,            \* self._num_datasets
    dataset_id,              \* self._dataset_id
    dataset_description,     \* self._dataset_description
    constraints,             \* self._constraints
    plot_parameters,         \* self._plot_parameters
    default_plot_parameters, \* self._default_plot_parameters
    absent_option_types,     \* the option types self._plot_options does not hold
    plot_query,              \* self._plot_query
    constraints_query,       \* self._constraints_query
    image_url,               \* self._image_url
    file,                    \* the destination file of download_image
    stale,                   \* calls since the last successful build
    last                     \* the last call: [op, out, net]

vars ==
    <<server, response, datasets, num_datasets, dataset_id, dataset_description,
      constraints, plot_parameters, default_plot_parameters, absent_option_types, plot_query,
      constraints_query, image_url, file, stale, last>>

protocol == S_tabledap

\* option_type in self._plot_options
Has(option_type) == option_type \notin absent_option_types

\* self.colors: the color names, [] when the options hold no colors
colors == IF Has("colors") THEN DictKeys(plot_options.colors) ELSE {}

\* self.opacities, [] when the options hold no opacities
opacities == IF Has("opacities") THEN plot_options.opacities ELSE <<>>

\* self.operators, [] when the options hold no operators
operators == IF Has("operators") THEN plot_options.operators ELSE <<>>

DefaultPlotParameters ==
    <<[k |-> K_bgColor, v |-> <<"0", "x", "F", "F", "C", "C", "C", "C", "F", "F">>],
      [k |-> K_color, v |-> <<"0", "x", "0", "0", "0", "0", "0", "0">>],
      [k |-> K_colorBar, v |-> <<"R", "a", "i", "n", "b", "o", "w", "2", "|", "C", "|",
                                 "L", "i", "n", "e", "a", "r", "|", "|", "|">>],
      [k |-> K_draw, v |-> <<"m", "a", "r", "k", "e", "r", "s">>],
      [k |-> K_legend, v |-> <<"B", "o", "t", "t", "o", "m">>],
      [k |-> K_marker, v |-> <<"6", "|", "5">>],
      [k |-> K_xRange, v |-> <<"|", "|", "t", "r", "u", "e", "|", "L", "i", "n", "e", "a", "r">>],
      [k |-> K_yRange, v |-> <<"|", "|", "f", "a", "l", "s", "e", "|", "L", "i", "n", "e", "a", "r">>]>>

\* what one call did: its outcome and the requests it sent
Call(op, out, net) == [op |-> op, out |-> out, net |-> net]

\* self.dataset_variables (sorted; only membership is used); raises KeyError
\* on an empty description, which has no row_type column
dataset_variables ==
    {dataset_description[i].variable_name :
        i \in {j \in DOMAIN dataset_description : dataset_description[j].row_type = "variable"}}

DatasetVariablesRaises == dataset_description = EmptyFrame

(***************************************************************************)
(* _fetch_datasets: the registry after a refresh from srv.                 *)
(*   ok         the table is read and its protocol columns are dropped     *)
(*   http_error requests.exceptions.HTTPError inside the try: caught       *)
(*   error      any other exception of the request or the parse: escapes   *)
(*   drop_error the table is read and stored, drop(columns=...) raises     *)
(***************************************************************************)
FetchOutcomes == {"ok", "http_error", "error", "drop_error"}

\* mutant: a refresh that fails leaves an empty registry
_fetch_datasets_emptying(srv, outcome) ==
    CASE outcome = "ok" ->
            [datasets |-> [index |-> ServerIndex(srv), columns |-> {"minTime", "maxTime"}],
             num_datasets |-> Cardinality(ServerIndex(srv)),
             raised |-> FALSE]
      [] outcome = "drop_error" ->
            [datasets |-> [index |-> ServerIndex(srv), columns |-> {"minTime", "maxTime", "griddap"}],
             num_datasets |-> num_datasets,
             raised |-> TRUE]
      [] outcome = "http_error" ->
            [datasets |-> [index |-> {}, columns |-> {}], num_datasets |-> 0, raised |-> FALSE]
      [] outcome = "error" ->
            [datasets |-> [index |-> {}, columns |-> {}], num_datasets |-> 0, raised |-> TRUE]

_fetch_datasets(srv, outcome) ==
    CASE outcome = "ok" ->
            [datasets |-> [index |-> ServerIndex(srv), columns |-> {"minTime", "maxTime"}],
             num_datasets |-> Cardinality(ServerIndex(srv)),
             raised |-> FALSE]
      [] outcome = "drop_error" ->
            [datasets |-> [index |-> ServerIndex(srv), columns |-> {"minTime", "maxTime", "griddap"}],
             num_datasets |-> num_datasets,
             raised |-> TRUE]
      [] outcome = "http_error" ->
            [datasets |-> datasets, num_datasets |-> num_datasets, raised |-> FALSE]
      [] outcome = "error" ->
            [datasets |-> datasets, num_datasets |-> num_datasets, raised |-> TRUE]

(***************************************************************************)
(* __init__(erddap_url): the registry is fetched once; a fetch that raises *)
(* leaves no object.                                                       *)
(***************************************************************************)
Init ==
    /\ server = S_serverA
    /\ response = S_png
    /\ \E outcome \in {"ok", "http_error"} :
        /\ datasets = IF outcome = "ok"
                      THEN [index |-> ServerIndex(S_serverA), columns |-> {"minTime", "maxTime"}]
                      ELSE [index |-> {}, columns |-> {}]
        /\ num_datasets = IF outcome = "ok" THEN Cardinality(ServerIndex(S_serverA)) ELSE 0
    /\ dataset_id = None
    /\ dataset_description = EmptyFrame
    /\ constraints = <<>>
    /\ default_plot_parameters = DefaultPlotParameters
    /\ absent_option_types \in CatalogGaps
    /\ plot_parameters = DefaultPlotParameters
    /\ plot_query = None
    /\ constraints_query = None
    /\ image_url = None
    /\ file \in {"absent", "old"}
    /\ stale = 0
    /\ last = Call("__init__", "ok", <<"allDatasets">>)

fsVars == <<file>>
eVars == <<server, response>>
regVars == <<datasets, num_datasets>>
selVars == <<dataset_id, dataset_description>>
reqVars == <<plot_query, constraints_query, image_url>>

\* the model follows at most MaxStale calls after a build before the next build
Budget == plot_query = None \/ stale < MaxStale

Tick == stale' = IF plot_query' = None THEN 0 ELSE stale + 1

(***************************************************************************)
(* image_type setter.                                                      *)
(***************************************************************************)
SetImageType(image_type) ==
    /\ Budget
    /\ IF ~Has("image_types")
       THEN /\ last' = Call("image_type", "raised", <<>>)
            /\ UNCHANGED response
       ELSE IF ~InList(image_type, plot_options.image_types)
       THEN /\ last' = Call("image_type", "invalid", <<>>)
            /\ UNCHANGED response
       ELSE /\ response' = image_type
            /\ last' = Call("image_type", "ok", <<>>)
    /\ UNCHANGED <<server, regVars, selVars, constraints, plot_parameters,
                   default_plot_parameters, absent_option_types, reqVars, fsVars>>
    /\ Tick

(***************************************************************************)
(* get_dataset_description, as called by the dataset_id setter: the        *)
(* description is emptied, then fetched; a failed fetch raises.            *)
(***************************************************************************)
get_dataset_description(id, outcome) ==
    IF outcome = "ok" THEN ServerInfo(server, id) ELSE EmptyFrame

\* mutant: the registry is not consulted
SetDatasetIdUnchecked(id, outcome) ==
    /\ plot_query = None \/ stale < MaxStale
    /\ outcome \in {"ok", "error"}
    /\ outcome = "ok" => id \in ServerIndex(server)
    /\ dataset_id' = id
    /\ dataset_description' = get_dataset_description(id, outcome)
    /\ last' = Call("dataset_id", IF outcome = "ok" THEN "ok" ELSE "raised", <<"info">>)
    /\ UNCHANGED <<server, response, datasets, num_datasets, constraints, plot_parameters,
                   default_plot_parameters, absent_option_types, plot_query, constraints_query, image_url, file>>
    /\ stale' = IF plot_query' = None THEN 0 ELSE stale + 1

(***************************************************************************)
(* dataset_id setter.                                                      *)
(***************************************************************************)
SetDatasetId(id, outcome) ==
    /\ Budget
    /\ outcome \in {"ok", "error"}
    /\ IF id \notin datasets.index
       THEN /\ outcome = "ok"
            /\ last' = Call("dataset_id", "invalid", <<>>)
            /\ UNCHANGED selVars
       ELSE /\ outcome = "ok" => id \in ServerIndex(server)
            /\ dataset_id' = id
            /\ dataset_description' = get_dataset_description(id, outcome)
            /\ last' = Call("dataset_id", IF outcome = "ok" THEN "ok" ELSE "raised", <<"info">>)
    /\ UNCHANGED <<eVars, regVars, constraints, plot_parameters,
                   default_plot_parameters, absent_option_types, reqVars, fsVars>>
    /\ Tick

(***************************************************************************)
(* clear_constraints, reset_plot_parameters.                               *)
(***************************************************************************)
clear_constraints == <<>>

\* mutant: the defaults are written over the mapping, whose other keys stay
reset_plot_parameters_update ==
    [i \in DOMAIN plot_parameters |->
        IF i <= Len(default_plot_parameters) THEN default_plot_parameters[i] ELSE plot_parameters[i]]

reset_plot_parameters == default_plot_parameters

ClearConstraints ==
    /\ Budget
    /\ constraints' = clear_constraints
    /\ last' = Call("clear_constraints", "ok", <<>>)
    /\ UNCHANGED <<eVars, regVars, selVars, plot_parameters,
                   default_plot_parameters, absent_option_types, reqVars, fsVars>>
    /\ Tick

ResetPlotParameters ==
    /\ Budget
    /\ plot_parameters' = reset_plot_parameters
    /\ last' = Call("reset_plot_parameters",
                    IF plot_parameters' = plot_parameters THEN "unchanged" ELSE "restored", <<>>)
    /\ UNCHANGED <<eVars, regVars, selVars, constraints,
                   default_plot_parameters, absent_option_types, reqVars, fsVars>>
    /\ Tick

(***************************************************************************)
(* server setter.  An exception that escapes _fetch_datasets ends the      *)
(* setter after the server (and perhaps the table) was replaced.           *)
(***************************************************************************)
SetServer(erddap_url, outcome) ==
    /\ Budget
    /\ outcome \in FetchOutcomes
    /\ IF ~StartsWith(erddap_url, S_http) /\ ~DictHas(servers, erddap_url)
       THEN /\ outcome = "ok"
            /\ last' = Call("server", "invalid", <<>>)
            /\ UNCHANGED <<server, regVars, dataset_id, constraints, plot_parameters, reqVars>>
       ELSE LET url == IF ~StartsWith(erddap_url, S_http)
                       THEN DictGet(servers, erddap_url)
                       ELSE erddap_url
                fetched == _fetch_datasets(url, outcome)
            IN  /\ server' = url
                /\ datasets' = fetched.datasets
                /\ num_datasets' = fetched.num_datasets
                /\ IF fetched.raised
                   THEN /\ last' = Call("server", "raised", <<"allDatasets">>)
                        /\ UNCHANGED <<dataset_id, constraints, plot_parameters, reqVars>>
                   ELSE /\ constraints' = clear_constraints
                        /\ plot_parameters' = reset_plot_parameters
                        /\ dataset_id' = None
                        /\ plot_query' = None
                        /\ constraints_query' = None
                        /\ image_url' = None
                        /\ last' = Call("server", IF outcome = "ok" THEN "ok" ELSE "fetch_failed",
                                        <<"allDatasets">>)
    /\ UNCHANGED <<response, dataset_description, default_plot_parameters, absent_option_types, fsVars>>
    /\ Tick

(***************************************************************************)
(* add_constraint, remove_constraint.                                      *)
(***************************************************************************)
\* mutant: the key is the variable alone
add_constraint_by_variable(cs, variable, operator, value) == DictSet(cs, variable, value)

\* mutant: every add makes a new entry
add_constraint_appending(cs, variable, operator, value) ==
    Append(cs, [k |-> variable \o operator, v |-> value])

\* self._constraints['{:}{:}'.format(variable, operator)] = str(value)
add_constraint(cs, variable, operator, value) == DictSet(cs, variable \o operator, value)

\* self._constraints.pop(constraint), skipped when the key is absent
remove_constraint(cs, constraint) ==
    IF ~DictHas(cs, constraint) THEN cs ELSE DictPop(cs, constraint)

\* mutant: the operator is validated before the variable
AddConstraintOutcomeOperatorFirst(variable, operator) ==
    IF Falsy(dataset_id) THEN "no_dataset"
    ELSE IF ~InList(operator, operators) THEN "invalid_operator"
    ELSE IF DatasetVariablesRaises THEN "raised"
    ELSE IF variable \notin dataset_variables THEN "unknown_variable"
    ELSE "ok"

\* what add_constraint(variable, operator, value) does in the current state
AddConstraintOutcome(variable, operator) ==
    IF Falsy(dataset_id) THEN "no_dataset"
    ELSE IF DatasetVariablesRaises THEN "raised"
    ELSE IF variable \notin dataset_variables THEN "unknown_variable"
    ELSE IF ~InList(operator, operators) THEN "invalid_operator"
    ELSE "ok"

AddConstraint(variable, operator, value) ==
    /\ Budget
    /\ LET out == AddConstraintOutcome(variable, operator)
       IN  /\ IF out = "ok"
              THEN /\ constraints' = add_constraint(constraints, variable, operator, value)
                   /\ Len(constraints') <= MaxConstraints
              ELSE UNCHANGED constraints
           /\ last' = Call("add_constraint", out, <<>>)
    /\ UNCHANGED <<eVars, regVars, selVars, plot_parameters,
                   default_plot_parameters, absent_option_types, reqVars, fsVars>>
    /\ Tick

RemoveConstraint(constraint) ==
    /\ Budget
    /\ constraints' = remove_constraint(constraints, constraint)
    /\ last' = Call("remove_constraint",
                    IF DictHas(constraints, constraint) THEN "ok" ELSE "not_set", <<>>)
    /\ UNCHANGED <<eVars, regVars, selVars, plot_parameters,
                   default_plot_parameters, absent_option_types, reqVars, fsVars>>
    /\ Tick

(***************************************************************************)
(* The plot parameter setters: each gives the outcome of the call and the  *)
(* mapping it leaves.                                                      *)
(***************************************************************************)
Rejected(p, why) == [out |-> why, params |-> p]

\* self._plot_options[option_type] on options that do not hold it: KeyError
KeyError(p) == [out |-> "raised", params |-> p]

\* mutant: the mapping is rebuilt from the defaults around the new entry
UpdatedFromDefaults(p, key, value) ==
    [out |-> "ok", params |-> DictSet(DefaultPlotParameters, key, value)]

Updated(p, key, value) == [out |-> "ok", params |-> DictSet(p, key, value)]

Bar == <<"|">>

\* mutant: the opacity is written as it was passed
set_background_color_as_passed(p, color, opacity) ==
    IF color \notin colors /\ ~HexRegexMatch(color) THEN Rejected(p, "invalid_color")
    ELSE LET rrggbb == IF color \in colors THEN DictGet(plot_options.colors, color) ELSE color
         IN  IF ~InList(opacity, opacities) THEN Rejected(p, "invalid_opacity")
             ELSE Updated(p, K_bgColor, <<"0", "x">> \o opacity \o rrggbb)

set_background_color(p, color, opacity) ==
    IF color \notin colors /\ ~HexRegexMatch(color) THEN Rejected(p, "invalid_color")
    ELSE LET rrggbb == IF color \in colors THEN DictGet(plot_options.colors, color) ELSE color
             aa == Upper(opacity)
         IN  IF ~InList(opacity, opacities) THEN Rejected(p, "invalid_opacity")
             ELSE Updated(p, K_bgColor, <<"0", "x">> \o aa \o rrggbb)

\* mutant: the continuous flag and the scale are written as they were passed
set_color_bar_as_passed(p, color_bar, continuous, scale, min_value, max_value, num_sections) ==
    IF ~Has("color_bars") THEN KeyError(p)
    ELSE IF ~InList(color_bar, plot_options.color_bars) THEN Rejected(p, "invalid_color_bar")
    ELSE IF ~Has("continuous_options") \/ ~Has("scale_options") THEN KeyError(p)
    ELSE LET lo == IF min_value = PyNone THEN <<>> ELSE Format(min_value)
             hi == IF max_value = PyNone THEN <<>> ELSE Format(max_value)
             n == IF PyFalsy(num_sections) THEN <<>> ELSE Format(num_sections)
         IN  Updated(p, K_colorBar,
                     color_bar \o Bar \o continuous \o Bar \o scale \o Bar \o lo \o Bar \o hi \o Bar \o n)

set_color_bar(p, color_bar, continuous, scale, min_value, max_value, num_sections) ==
    IF ~Has("color_bars") THEN KeyError(p)
    ELSE IF ~InList(color_bar, plot_options.color_bars) THEN Rejected(p, "invalid_color_bar")
    ELSE IF ~Has("continuous_options") \/ ~Has("scale_options") THEN KeyError(p)
    ELSE LET cont == IF ~InList(continuous, plot_options.continuous_options) THEN <<"C">> ELSE continuous
             sc == IF ~InList(scale, plot_options.scale_options) THEN S_Linear ELSE scale
             lo == IF min_value = PyNone THEN <<>> ELSE Format(min_value)
             hi == IF max_value = PyNone THEN <<>> ELSE Format(max_value)
             n == IF PyFalsy(num_sections) THEN <<>> ELSE Format(num_sections)
         IN  Updated(p, K_colorBar,
                     color_bar \o Bar \o cont \o Bar \o sc \o Bar \o lo \o Bar \o hi \o Bar \o n)

set_marker_color(p, color) ==
    IF color \notin colors THEN Rejected(p, "invalid_color")
    ELSE Updated(p, K_color, <<"0", "x">> \o DictGet(plot_options.colors, color))

set_line_style(p, line_style) ==
    IF ~Has("line_styles") THEN KeyError(p)
    ELSE IF ~InList(line_style, plot_options.line_styles) THEN Rejected(p, "invalid_line_style")
    ELSE Updated(p, K_draw, line_style)

\* mutant: the marker is numbered by its one-based position
set_marker_style_one_based(p, marker, marker_size) ==
    IF ~Has("marker_types") THEN KeyError(p)
    ELSE IF ~InList(marker, plot_options.marker_types) THEN Rejected(p, "invalid_marker")
    ELSE Updated(p, K_marker,
                 IntStr(ListIndex(plot_options.marker_types, marker) + 1)
                    \o Bar \o Format(marker_size))

set_marker_style(p, marker, marker_size) ==
    IF ~Has("marker_types") THEN KeyError(p)
    ELSE IF ~InList(marker, plot_options.marker_types) THEN Rejected(p, "invalid_marker")
    ELSE Updated(p, K_marker,
                 IntStr(ListIndex(plot_options.marker_types, marker)) \o Bar \o Format(marker_size))

set_legend(p, location) ==
    IF ~Has("legend_options") THEN KeyError(p)
    ELSE IF ~InList(location, plot_options.legend_options) THEN Rejected(p, "invalid_legend")
    ELSE Updated(p, K_legend, location)

\* mutant: ascending is not type-checked
set_range_unchecked_ascending(p, key, min_value, max_value, ascending, scale) ==
    IF ~Has("scale_options") THEN KeyError(p)
    ELSE LET sc == IF Falsy(scale) THEN plot_options.scale_options[1] ELSE scale
         IN  IF ~InList(sc, plot_options.scale_options) THEN Rejected(p, "invalid_scale")
             ELSE LET lo == IF PyFalsy(min_value) THEN <<>> ELSE Format(min_value)
                      hi == IF PyFalsy(max_value) THEN <<>> ELSE Format(max_value)
                  IN  Updated(p, key,
                              lo \o Bar \o hi \o Bar \o Lower(Format(ascending)) \o Bar \o sc)

\* the body shared by set_x_range and set_y_range
set_range(p, key, min_value, max_value, ascending, scale) ==
    IF ~Has("scale_options") THEN KeyError(p)
    ELSE LET sc == IF Falsy(scale) THEN plot_options.scale_options[1] ELSE scale
         IN  IF ~InList(sc, plot_options.scale_options) THEN Rejected(p, "invalid_scale")
             ELSE IF ~IsInstanceBool(ascending) THEN Rejected(p, "invalid_ascending")
             ELSE LET lo == IF PyFalsy(min_value) THEN <<>> ELSE Format(min_value)
                      hi == IF PyFalsy(max_value) THEN <<>> ELSE Format(max_value)
                  IN  Updated(p, key,
                              lo \o Bar \o hi \o Bar \o Lower(Format(ascending)) \o Bar \o sc)

set_x_range(p, min_value, max_value, ascending, scale) ==
    set_range(p, K_xRange, min_value, max_value, ascending, scale)

set_y_range(p, min_value, max_value, ascending, scale) ==
    set_range(p, K_yRange, min_value, max_value, ascending, scale)

set_zoom_level(p, zoom_level) ==
    IF ~Has("zoom_levels") THEN KeyError(p)
    ELSE IF ~InList(zoom_level, plot_options.zoom_levels) THEN Rejected(p, "invalid_zoom")
    ELSE Updated(p, K_zoom, zoom_level)

set_trim_pixels(p, num_pixels) ==
    IF ~IsInstanceInt(num_pixels) THEN Rejected(p, "invalid_trim")
    ELSE Updated(p, K_trim, Format(num_pixels))

\* the keys of p that are not in the default mapping or differ from it
Overrides(p) ==
    Cardinality({i \in DOMAIN p :
        i > Len(DefaultPlotParameters) \/ p[i] # DefaultPlotParameters[i]})

\* mutant: a setter that changes the mapping also empties image_url
SetterInvalidatingUrl(op, res) ==
    /\ plot_query = None \/ stale < MaxStale
    /\ Overrides(res.params) <= MaxOverrides
    /\ plot_parameters' = res.params
    /\ image_url' = IF res.out = "ok" THEN None ELSE image_url
    /\ last' = Call(op, res.out, <<>>)
    /\ UNCHANGED <<server, response, datasets, num_datasets, dataset_id, dataset_description,
                   constraints, default_plot_parameters, absent_option_types, plot_query, constraints_query, file>>
    /\ stale' = IF plot_query' = None THEN 0 ELSE stale + 1

\* a setter call: the mapping is replaced by what the setter leaves
Setter(op, res) ==
    /\ Budget
    /\ Overrides(res.params) <= MaxOverrides
    /\ plot_parameters' = res.params
    /\ last' = Call(op, res.out, <<>>)
    /\ UNCHANGED <<eVars, regVars, selVars, constraints,
                   default_plot_parameters, absent_option_types, reqVars, fsVars>>
    /\ Tick

SetBackgroundColor(color, opacity) ==
    Setter("set_background_color", set_background_color(plot_parameters, color, opacity))

SetColorBar(color_bar, continuous, scale, min_value, max_value, num_sections) ==
    Setter("set_color_bar",
           set_color_bar(plot_parameters, color_bar, continuous, scale,
                         min_value, max_value, num_sections))

SetMarkerColor(color) ==
    Setter("set_marker_color", set_marker_color(plot_parameters, color))

SetLineStyle(line_style) ==
    Setter("set_line_style", set_line_style(plot_parameters, line_style))

SetMarkerStyle(marker, marker_size) ==
    Setter("set_marker_style", set_marker_style(plot_parameters, marker, marker_size))

SetLegend(location) ==
    Setter("set_legend", set_legend(plot_parameters, location))

SetXRange(min_value, max_value, ascending, scale) ==
    Setter("set_x_range", set_x_range(plot_parameters, min_value, max_value, ascending, scale))

SetYRange(min_value, max_value, ascending, scale) ==
    Setter("set_y_range", set_y_range(plot_parameters, min_value, max_value, ascending, scale))

SetZoomLevel(zoom_level) ==
    Setter("set_zoom_level", set_zoom_level(plot_parameters, zoom_level))

SetTrimPixels(num_pixels) ==
    Setter("set_trim_pixels", set_trim_pixels(plot_parameters, num_pixels))

(***************************************************************************)
(* The query builders and build_image_request.                             *)
(***************************************************************************)
\* mutant: the key is percent-encoded together with the value
_build_plot_query_string_quoting_pair(p) ==
    Join(<<"&">>, [i \in DOMAIN p |-> quote(p[i].k \o p[i].v)])

\* '&'.join(['{:}{:}'.format(k, quote(v)) for k, v in self._plot_parameters.items()])
_build_plot_query_string(p) ==
    Join(<<"&">>, [i \in DOMAIN p |-> p[i].k \o quote(p[i].v)])

\* '&'.join([quote('{:}{:}'.format(k, v)) for k, v in self._constraints.items()])
_build_constraints_query_string(cs) ==
    Join(<<"&">>, [i \in DOMAIN cs |-> quote(cs[i].k \o cs[i].v)])

\* the variables list: x, y and a truthy c
RequestVariables(x, y, c) == IF Falsy(c) THEN <<x, y>> ELSE <<x, y, c>>

\* mutant: the three-segment format is used whether or not there are constraints
ImageUrlAlwaysConstraints(srv, id, resp, variables, cs, cq, pq) ==
    srv \o <<"/">> \o protocol \o <<"/">> \o id \o <<".">> \o resp \o <<"?">>
        \o Join(<<",">>, variables) \o <<"&">> \o cq \o <<"&">> \o pq

\* the url assembled at the end of build_image_request
ImageUrl(srv, id, resp, variables, cs, cq, pq) ==
    srv \o <<"/">> \o protocol \o <<"/">> \o id \o <<".">> \o resp \o <<"?">>
        \o Join(<<",">>, variables) \o <<"&">>
        \o (IF cs # <<>> THEN cq \o <<"&">> ELSE <<>>)
        \o pq

\* how build_image_request(x, y, c) ends in the current state
BuildOutcome(x, y, c) ==
    IF Falsy(dataset_id) THEN "no_dataset"
    ELSE IF DatasetVariablesRaises THEN "raised"
    ELSE IF x \notin dataset_variables THEN "unknown_x"
    ELSE IF y \notin dataset_variables THEN "unknown_y"
    ELSE IF ~Falsy(c) /\ c \notin dataset_variables THEN "unknown_c"
    ELSE "ok"

\* mutant: a failing build leaves the stored url as it was
BuildImageRequestKeepingUrl(x, y, c) ==
    LET out == BuildOutcome(x, y, c)
    IN  /\ IF out = "ok"
           THEN /\ plot_query' = _build_plot_query_string(plot_parameters)
                /\ constraints_query' = _build_constraints_query_string(constraints)
                /\ image_url' = ImageUrl(server, dataset_id, response, RequestVariables(x, y, c),
                                         constraints, constraints_query', plot_query')
           ELSE UNCHANGED <<image_url, plot_query, constraints_query>>
        /\ last' = Call("build_image_request", out, <<>>)
        /\ stale' = 0
        /\ UNCHANGED <<server, response, datasets, num_datasets, dataset_id, dataset_description,
                       constraints, plot_parameters, default_plot_parameters, absent_option_types, file>>

\* mutant: a successful build uses the constraints up
BuildImageRequestConsuming(x, y, c) ==
    LET out == BuildOutcome(x, y, c)
    IN  /\ IF out = "ok"
           THEN /\ plot_query' = _build_plot_query_string(plot_parameters)
                /\ constraints_query' = _build_constraints_query_string(constraints)
                /\ image_url' = ImageUrl(server, dataset_id, response, RequestVariables(x, y, c),
                                         constraints, constraints_query', plot_query')
                /\ constraints' = <<>>
           ELSE /\ image_url' = None
                /\ UNCHANGED <<plot_query, constraints_query, constraints>>
        /\ last' = Call("build_image_request", out, <<>>)
        /\ stale' = 0
        /\ UNCHANGED <<server, response, datasets, num_datasets, dataset_id, dataset_description,
                       plot_parameters, default_plot_parameters, absent_option_types, file>>

BuildImageRequest(x, y, c) ==
    LET out == BuildOutcome(x, y, c)
    IN  /\ IF out = "ok"
           THEN /\ plot_query' = _build_plot_query_string(plot_parameters)
                /\ constraints_query' = _build_constraints_query_string(constraints)
                /\ image_url' = ImageUrl(server, dataset_id, response, RequestVariables(x, y, c),
                                         constraints, constraints_query', plot_query')
           ELSE /\ image_url' = None
                /\ UNCHANGED <<plot_query, constraints_query>>
        /\ last' = Call("build_image_request", out, <<>>)
        /\ stale' = 0
        /\ UNCHANGED <<eVars, regVars, selVars, constraints, plot_parameters,
                       default_plot_parameters, absent_option_types, fsVars>>

(***************************************************************************)
(* download_image(image_name, clobber): outcome is what the request and    *)
(* the write do when they are reached.                                     *)
(*   ok          status 200, the file is written                           *)
(*   status      a status other than 200                                   *)
(*   transport   requests.get raises                                       *)
(*   open_error  open(image_path, 'wb') raises OSError                     *)
(*   write_error a write raises OSError after the file was opened          *)
(*   bad_path    self._image_path is not a directory when the call is made *)
(***************************************************************************)
DownloadOutcomes == {"ok", "status", "transport", "open_error", "write_error", "bad_path"}

\* mutant: the file is opened for writing before the status is looked at
DownloadImageOpeningFirst(clobber, outcome) ==
    /\ outcome \in DownloadOutcomes
    /\ IF outcome = "bad_path"
       THEN /\ last' = Call("download_image", "bad_path", <<>>)
            /\ UNCHANGED <<image_url, file>>
       ELSE IF Falsy(image_url)
       THEN /\ outcome = "ok"
            /\ last' = Call("download_image", "no_url", <<>>)
            /\ UNCHANGED <<image_url, file>>
       ELSE IF file # "absent" /\ ~clobber
       THEN /\ outcome = "ok"
            /\ last' = Call("download_image", "skipped", <<>>)
            /\ UNCHANGED <<image_url, file>>
       ELSE IF outcome = "transport"
       THEN /\ last' = Call("download_image", "raised", <<"image">>)
            /\ UNCHANGED <<image_url, file>>
       ELSE /\ image_url' = None
            /\ file' = CASE outcome = "ok" -> "new"
                         [] outcome \in {"write_error", "status"} -> "partial"
                         [] OTHER -> file
            /\ last' = Call("download_image", outcome, <<"image">>)
    /\ stale' = stale
    /\ UNCHANGED <<server, response, datasets, num_datasets, dataset_id, dataset_description,
                   constraints, plot_parameters, default_plot_parameters, absent_option_types, plot_query,
                   constraints_query>>

\* mutant: the request is sent before the existing file is looked at
DownloadImageRequestingFirst(clobber, outcome) ==
    /\ outcome \in DownloadOutcomes
    /\ IF outcome = "bad_path"
       THEN /\ last' = Call("download_image", "bad_path", <<>>)
            /\ UNCHANGED <<image_url, file>>
       ELSE IF Falsy(image_url)
       THEN /\ outcome = "ok"
            /\ last' = Call("download_image", "no_url", <<>>)
            /\ UNCHANGED <<image_url, file>>
       ELSE IF outcome = "transport"
       THEN /\ last' = Call("download_image", "raised", <<"image">>)
            /\ UNCHANGED <<image_url, file>>
       ELSE IF file # "absent" /\ ~clobber
       THEN /\ outcome = "ok"
            /\ image_url' = None
            /\ last' = Call("download_image", "skipped", <<"image">>)
            /\ UNCHANGED file
       ELSE /\ image_url' = None
            /\ file' = CASE outcome = "ok" -> "new"
                         [] outcome = "write_error" -> "partial"
                         [] OTHER -> file
            /\ last' = Call("download_image", outcome, <<"image">>)
    /\ stale' = stale
    /\ UNCHANGED <<server, response, datasets, num_datasets, dataset_id, dataset_description,
                   constraints, plot_parameters, default_plot_parameters, absent_option_types, plot_query,
                   constraints_query>>

DownloadImage(clobber, outcome) ==
    /\ outcome \in DownloadOutcomes
    /\ IF outcome = "bad_path"
       THEN /\ last' = Call("download_image", "bad_path", <<>>)
            /\ UNCHANGED <<image_url, file>>
       ELSE IF Falsy(image_url)
       THEN /\ outcome = "ok"
            /\ last' = Call("download_image", "no_url", <<>>)
            /\ UNCHANGED <<image_url, file>>
       ELSE IF file # "absent" /\ ~clobber
       THEN /\ outcome = "ok"
            /\ last' = Call("download_image", "skipped", <<>>)
            /\ UNCHANGED <<image_url, file>>
       ELSE IF outcome = "transport"
       THEN /\ last' = Call("download_image", "raised", <<"image">>)
            /\ UNCHANGED <<image_url, file>>
       ELSE /\ image_url' = None
            /\ file' = CASE outcome = "ok" -> "new"
                         [] outcome = "write_error" -> "partial"
                         [] OTHER -> file
            /\ last' = Call("download_image", outcome, <<"image">>)
    /\ stale' = stale
    /\ UNCHANGED <<eVars, regVars, selVars, constraints, plot_parameters,
                   default_plot_parameters, absent_option_types, plot_query, constraints_query>>

(***************************************************************************)
(* The callers' arguments.                                                 *)
(***************************************************************************)
DatasetIdArgs == {S_d1, S_d2, S_dX}
ServerArgs == {S_serverB, S_shortcutB, S_unknownServer}
ConstraintArgs ==
    {<<S_time, S_ge, S_2020>>, <<S_time, S_ge, S_NaN>>, <<S_time, S_le, S_2020>>,
     <<S_temp, S_ne, S_NaN>>,
     <<S_nope, S_ge, S_2020>>, <<S_time, S_badop, S_2020>>, <<S_nope, S_badop, S_2020>>}
ConstraintKeyArgs == {S_time \o S_ge, S_temp \o S_ne}
BuildArgs ==
    {<<S_time, S_depth, None>>, <<S_time, S_depth, S_temp>>, <<S_nope, S_depth, None>>,
     <<S_time, S_nope, None>>, <<S_time, S_depth, S_nope>>}
BackgroundColorArgs ==
    {<<S_white, S_FF>>, <<S_black, S_7f>>, <<S_hexred, S_FF>>, <<S_nope, S_FF>>,
     <<S_zz \o S_zz \o S_zz, S_FF>>,
     <<S_white, S_ff>>, <<S_white, S_zz>>}
ColorBarArgs ==
    {<<S_KT, <<"D">>, S_Log, PyNone, PyNone, PyNone>>,
     <<S_KT, S_nope, S_nope, PyInt(<<"0">>), PyInt(<<"5">>), PyInt(<<"0">>)>>,
     <<S_nope, <<"D">>, S_Log, PyNone, PyNone, PyNone>>}
ColorArgs == {S_white, S_hexred, S_nope}
LineStyleArgs == {S_lines, S_markers, S_nope}
MarkerStyleArgs == {<<S_Dot, PyInt(<<"5">>)>>, <<S_Circle, PyInt(<<"7">>)>>, <<S_nope, PyInt(<<"5">>)>>}
LegendArgs == {S_Off, S_Bottom, S_nope}
RangeArgs ==
    {<<PyNone, PyNone, PyFalse, None>>,
     <<PyInt(<<"0">>), PyInt(<<"5">>), PyTrue, S_Log>>,
     <<PyInt(<<"5">>), PyNone, PyStr(<<"y", "e", "s">>), S_Log>>,
     <<PyNone, PyNone, PyTrue, S_nope>>}
ZoomLevelArgs == {S_in, S_out, S_nope}
PixelArgs == {PyInt(<<"1", "0">>), PyTrue, PyFloat(<<"1", ".", "5">>), PyStr(<<"1", "0">>)}

(***************************************************************************)
(* Selection and constraints.                                              *)
(***************************************************************************)
NextConstraints ==
    \/ \E id \in DatasetIdArgs, outcome \in {"ok", "error"} : SetDatasetId(id, outcome)
    \/ \E url \in ServerArgs, outcome \in FetchOutcomes : SetServer(url, outcome)
    \/ \E a \in ConstraintArgs : AddConstraint(a[1], a[2], a[3])
    \/ \E key \in ConstraintKeyArgs : RemoveConstraint(key)
    \/ ClearConstraints

\* no destination file is involved
InitConstraints == Init /\ file = "absent" /\ absent_option_types = {}

SpecConstraints == InitConstraints /\ [][NextConstraints]_vars

(***************************************************************************)
(* Requests: a dataset, constraints, a setter, builds and downloads.       *)
(***************************************************************************)
Next ==
    \/ \E id \in {S_d1, S_d2, S_dX}, outcome \in {"ok", "error"} : SetDatasetId(id, outcome)
    \/ \E url \in {S_serverB, S_unknownServer}, outcome \in {"ok", "error"} : SetServer(url, outcome)
    \/ \E a \in {<<S_time, S_ge, S_2020>>, <<S_temp, S_ne, S_NaN>>} : AddConstraint(a[1], a[2], a[3])
    \/ \E key \in ConstraintKeyArgs : RemoveConstraint(key)
    \/ ClearConstraints
    \/ ResetPlotParameters
    \/ \E location \in {S_Off, S_nope} : SetLegend(location)
    \/ \E a \in BuildArgs : BuildImageRequest(a[1], a[2], a[3])
    \/ \E clobber \in BOOLEAN, outcome \in DownloadOutcomes : DownloadImage(clobber, outcome)

\* the session starts with the registry loaded
InitLoaded == Init /\ num_datasets > 0 /\ absent_option_types = {}

Spec == InitLoaded /\ [][Next]_vars

(***************************************************************************)
(* The plot parameter setters alone.                                       *)
(***************************************************************************)
NextParams ==
    \/ \E a \in BackgroundColorArgs : SetBackgroundColor(a[1], a[2])
    \/ \E a \in ColorBarArgs : SetColorBar(a[1], a[2], a[3], a[4], a[5], a[6])
    \/ \E color \in ColorArgs : SetMarkerColor(color)
    \/ \E line_style \in LineStyleArgs : SetLineStyle(line_style)
    \/ \E a \in MarkerStyleArgs : SetMarkerStyle(a[1], a[2])
    \/ \E location \in LegendArgs : SetLegend(location)
    \/ \E a \in RangeArgs : SetXRange(a[1], a[2], a[3], a[4])
    \/ \E a \in RangeArgs : SetYRange(a[1], a[2], a[3], a[4])
    \/ \E zoom_level \in ZoomLevelArgs : SetZoomLevel(zoom_level)
    \/ \E num_pixels \in PixelArgs : SetTrimPixels(num_pixels)
    \/ ResetPlotParameters

\* the session starts with the registry loaded and no destination file
InitParams == Init /\ num_datasets > 0 /\ file = "absent" /\ absent_option_types = {}

SpecParams == InitParams /\ [][NextParams]_vars

(***************************************************************************)
(* The setters over options that lack one option type.                     *)
(***************************************************************************)
\* __init__ only warns about a missing option type and goes on
InitCatalog == Init /\ num_datasets > 0 /\ file = "absent" /\ absent_option_types # {}

SpecCatalog == InitCatalog /\ [][NextParams]_vars

(***************************************************************************)
(* The setters in a session that has a dataset, a constraint and a built   *)
(* request.                                                                *)
(***************************************************************************)
NextFrame ==
    \/ SetBackgroundColor(S_white, S_FF)
    \/ SetColorBar(S_KT, <<"D">>, S_Log, PyNone, PyNone, PyNone)
    \/ SetMarkerColor(S_white)
    \/ \E line_style \in {S_lines, S_nope} : SetLineStyle(line_style)
    \/ SetMarkerStyle(S_Dot, PyInt(<<"5">>))
    \/ SetLegend(S_Off)
    \/ SetXRange(PyInt(<<"0">>), PyInt(<<"5">>), PyTrue, S_Log)
    \/ SetYRange(PyInt(<<"0">>), PyInt(<<"5">>), PyTrue, S_Log)
    \/ SetZoomLevel(S_in)
    \/ SetTrimPixels(PyInt(<<"1", "0">>))
    \/ SetDatasetId(S_d1, "ok")
    \/ AddConstraint(S_time, S_ge, S_2020)
    \/ BuildImageRequest(S_time, S_depth, None)

SpecFrame == InitParams /\ [][NextFrame]_vars

(***************************************************************************)
(* The plot query: a dataset, setters of old and new keys, resets, builds. *)
(***************************************************************************)
NextQuery ==
    \/ SetDatasetId(S_d1, "ok")
    \/ SetBackgroundColor(S_white, S_FF)
    \/ \E location \in {S_Off, S_nope} : SetLegend(location)
    \/ \E zoom_level \in ZoomLevelArgs : SetZoomLevel(zoom_level)
    \/ \E num_pixels \in PixelArgs : SetTrimPixels(num_pixels)
    \/ ResetPlotParameters
    \/ \E a \in {<<S_time, S_depth, None>>, <<S_nope, S_depth, None>>} :
            BuildImageRequest(a[1], a[2], a[3])

InitQuery == Init /\ num_datasets > 0 /\ file = "absent" /\ absent_option_types = {}

SpecQuery == InitQuery /\ [][NextQuery]_vars

(***************************************************************************)
(* Properties of the stored request.                                       *)
(***************************************************************************)
\* the url build_image_request(x, y, c) would store if it were called now
CurrentUrl(x, y, c) ==
    ImageUrl(server, dataset_id, response, RequestVariables(x, y, c), constraints,
             _build_constraints_query_string(constraints),
             _build_plot_query_string(plot_parameters))

\* the pieces of s between the occurrences of the character sep
RECURSIVE Segments(_, _)
Segments(s, sep) ==
    IF \A i \in DOMAIN s : s[i] # sep THEN <<s>>
    ELSE LET i == CHOOSE n \in DOMAIN s : s[n] = sep /\ \A j \in 1..(n - 1) : s[j] # sep
         IN  <<SubSeq(s, 1, i - 1)>> \o Segments(SubSeq(s, i + 1, Len(s)), sep)

\* C1 as stated: in every reachable state image_url is empty or is the url a
\* build would produce from the current dataset, plot parameters and
\* constraints.
C1_UrlIsOfCurrentState ==
    Falsy(image_url) \/ \E a \in BuildArgs : image_url = CurrentUrl(a[1], a[2], a[3])

\* C1 amended: image_url changes only in build_image_request, in a server
\* change that completes and in a download_image that got a response; a
\* successful build stores the url of the state it ran in, and every other
\* operation leaves the stored url as it is.
C1_UrlChangesOnlyAtBuildServerDownload ==
    [][/\ image_url' # image_url =>
            \/ last'.op = "build_image_request"
            \/ last'.op = "server" /\ last'.out \in {"ok", "fetch_failed"}
            \/ last'.op = "download_image"
                 /\ last'.out \in {"ok", "status", "open_error", "write_error"}
       /\ \A a \in BuildArgs :
            last'.op = "build_image_request" /\ last'.out = "ok"
                /\ BuildImageRequest(a[1], a[2], a[3]) =>
                    image_url' = CurrentUrl(a[1], a[2], a[3])
       /\ last'.op = "download_image" /\ last'.net # <<>> /\ last'.out # "raised" =>
            image_url' = None]_vars

\* C1 witness: a setter has changed the plot parameters after a build and the
\* stored url is no longer the url of the current state
C1_StaleUrlAfterSetter ==
    /\ last.op = "set_legend"
    /\ last.out = "ok"
    /\ ~Falsy(image_url)
    /\ ~C1_UrlIsOfCurrentState

\* C2 as stated: when the selected dataset changes, by a dataset_id assignment
\* or by a server change that completes, the constraint set is empty right
\* afterwards.
C2_DatasetChangeEmptiesConstraints ==
    [][(\/ last'.op = "dataset_id" /\ dataset_id' # dataset_id
        \/ last'.op = "server" /\ last'.out \in {"ok", "fetch_failed"})
            => constraints' = <<>>]_vars

\* C3 as stated: in every reachable state every constraint key is a variable
\* of the currently selected dataset followed by a catalog operator.
C3_KeysValidForCurrentDataset ==
    \A i \in DOMAIN constraints :
        \E variable \in dataset_variables, j \in DOMAIN operators :
            constraints[i].k = variable \o operators[j]

C5_ResetRestoresDefaults ==
    /\ default_plot_parameters = DefaultPlotParameters
    /\ last.op = "reset_plot_parameters" =>
        /\ plot_parameters = DefaultPlotParameters
        /\ reset_plot_parameters = plot_parameters

\* C5 witness: a reset has replaced a mapping that differed from the defaults
C5_ResetAfterChanges ==
    /\ last.op = "reset_plot_parameters"
    /\ last.out = "restored"
    /\ plot_parameters = DefaultPlotParameters

(***************************************************************************)
(* Properties of the selection and the constraints.                        *)
(***************************************************************************)
\* cs without the entries under key
Without(cs, key) == SelectSeq(cs, LAMBDA e : e.k # key)

\* C6 as stated: for a valid variable and operator, add_constraint followed
\* by remove_constraint of the same key gives back the constraint set as it
\* was before the add, whether or not it held that key.
C6_AddThenRemoveRestores ==
    \A a \in ConstraintArgs :
        AddConstraintOutcome(a[1], a[2]) = "ok" =>
            remove_constraint(add_constraint(constraints, a[1], a[2], a[3]), a[1] \o a[2])
                = constraints

\* C6 amended: for a valid variable and operator, add_constraint followed by
\* remove_constraint of the same key gives the constraint set as it was
\* before the add less any entry it held under that key: the same set when
\* the key was not in it, the set without that entry when it was.
C6_AddThenRemoveDropsKey ==
    \A a \in ConstraintArgs :
        AddConstraintOutcome(a[1], a[2]) = "ok" =>
            /\ remove_constraint(add_constraint(constraints, a[1], a[2], a[3]), a[1] \o a[2])
                    = Without(constraints, a[1] \o a[2])
            /\ ~DictHas(constraints, a[1] \o a[2]) =>
                    Without(constraints, a[1] \o a[2]) = constraints

\* C6 witness: a constraint was added; the set holds an entry under a key
\* that a valid add would write again, and one under another key
C6_ValidAddOverExistingKey ==
    /\ last.op = "add_constraint"
    /\ last.out = "ok"
    /\ Len(constraints) = MaxConstraints
    /\ \E a \in ConstraintArgs :
        /\ AddConstraintOutcome(a[1], a[2]) = "ok"
        /\ DictHas(constraints, a[1] \o a[2])
        /\ DictGet(constraints, a[1] \o a[2]) # a[3]

\* C7: assigning dataset_id an identifier that is not in the registry fails,
\* fetches no description and leaves the selected dataset, its description,
\* the constraints, the plot parameters and image_url as they were.
C7_UnknownDatasetIdChangesNothing ==
    [][\A id \in DatasetIdArgs, outcome \in {"ok", "error"} :
        last'.op = "dataset_id" /\ SetDatasetId(id, outcome) /\ id \notin datasets.index =>
            /\ last'.out = "invalid"
            /\ last'.net = <<>>
            /\ UNCHANGED <<dataset_id, dataset_description, constraints,
                           plot_parameters, image_url>>]_vars

\* C7 witness: an unknown identifier was assigned while a dataset was
\* selected, a constraint was set and a url was stored
C7_UnknownIdAfterBuild ==
    /\ last.op = "dataset_id"
    /\ last.out = "invalid"
    /\ ~Falsy(dataset_id)
    /\ constraints # <<>>
    /\ ~Falsy(image_url)

\* C8: add_constraint changes the constraint set only when a dataset is
\* selected, the variable is one of its variables and the operator is a
\* catalog operator, and then stores the value under variable+operator; it
\* reports no dataset before an unknown variable and an unknown variable
\* before an invalid operator.
C8_AddConstraintChecksInOrder ==
    [][\A a \in ConstraintArgs :
        last'.op = "add_constraint" /\ AddConstraint(a[1], a[2], a[3]) =>
            LET selected == ~Falsy(dataset_id)
                known == ~DatasetVariablesRaises /\ a[1] \in dataset_variables
                valid == InList(a[2], operators)
            IN  /\ ~(selected /\ known /\ valid) => constraints' = constraints
                /\ selected /\ known /\ valid =>
                        /\ DictHas(constraints', a[1] \o a[2])
                        /\ DictGet(constraints', a[1] \o a[2]) = a[3]
                        /\ Without(constraints', a[1] \o a[2]) = Without(constraints, a[1] \o a[2])
                /\ ~selected => last'.out = "no_dataset"
                /\ selected /\ ~DatasetVariablesRaises /\ ~known => last'.out = "unknown_variable"
                /\ selected /\ known /\ ~valid => last'.out = "invalid_operator"]_vars

\* C8 witness: a call with a variable the dataset does not have was turned
\* down while the set held constraints
C8_UnknownVariableTurnedDown ==
    /\ last.op = "add_constraint"
    /\ last.out = "unknown_variable"
    /\ constraints # <<>>

(***************************************************************************)
(* Properties of build_image_request and download_image.                   *)
(***************************************************************************)
\* C9: a successful build stores server/protocol/dataset.format?, then the
\* variables joined by commas, then one '&'-separated percent-encoded token
\* per constraint (key and value encoded together), then one token per plot
\* parameter (key, then the encoded value): the constraint tokens come before
\* the plot tokens and no token is empty.
C9_UrlSegments ==
    [][\A a \in BuildArgs :
        last'.op = "build_image_request" /\ last'.out = "ok"
            /\ BuildImageRequest(a[1], a[2], a[3]) =>
            LET head == server \o <<"/">> \o S_tabledap \o <<"/">> \o dataset_id
                            \o <<".">> \o response \o <<"?">>
                tail == SubSeq(image_url', Len(head) + 1, Len(image_url'))
            IN  /\ SubSeq(image_url', 1, Len(head)) = head
                /\ Segments(tail, "&") =
                        <<Join(<<",">>, IF Falsy(a[3]) THEN <<a[1], a[2]>> ELSE a)>>
                        \o [i \in DOMAIN constraints |->
                                quote(constraints[i].k \o constraints[i].v)]
                        \o [i \in DOMAIN plot_parameters |->
                                plot_parameters[i].k \o quote(plot_parameters[i].v)]]_vars

\* C9 witness: a build succeeded with two constraints set
C9_BuiltWithConstraints ==
    /\ last.op = "build_image_request"
    /\ last.out = "ok"
    /\ Len(constraints) = MaxConstraints
    /\ ~Falsy(image_url)

\* C10: a build without a selected dataset, or with x, y or a given c that is
\* not a variable of the selected dataset, fails and leaves image_url empty,
\* whatever an earlier build stored; a download_image that follows it sends
\* no request and writes no file.
C10_FailedBuildLeavesNoUrl ==
    [][/\ \A a \in BuildArgs :
            last'.op = "build_image_request" /\ BuildImageRequest(a[1], a[2], a[3])
                /\ (\/ Falsy(dataset_id)
                    \/ a[1] \notin dataset_variables
                    \/ a[2] \notin dataset_variables
                    \/ ~Falsy(a[3]) /\ a[3] \notin dataset_variables)
                => last'.out # "ok" /\ image_url' = None
       /\ last.op = "build_image_request" /\ last.out # "ok" /\ last'.op = "download_image"
                => last'.net = <<>> /\ file' = file /\ image_url' = None]_vars

\* C10 witness: a build with an unknown variable has failed after an earlier
\* build had succeeded, and no url is stored
C10_FailedBuildAfterBuild ==
    /\ last.op = "build_image_request"
    /\ last.out \in {"unknown_x", "unknown_y", "unknown_c"}
    /\ plot_query # None
    /\ Falsy(image_url)

\* C11: a download_image whose response status is not 200 neither creates
\* nor modifies the destination file, with clobber set or not, with the file
\* present or not.
C11_Non200LeavesFile ==
    [][\A clobber \in BOOLEAN :
        last'.op = "download_image" /\ last'.out = "status"
            /\ DownloadImage(clobber, "status") => file' = file]_vars

\* C11 witness: a request made with clobber over an existing file got a
\* status other than 200 and the file is the one that was there
C11_Non200OverExistingFile ==
    /\ last.op = "download_image"
    /\ last.out = "status"
    /\ last.net = <<"image">>
    /\ file = "old"

\* C12 as stated: after every download_image call, however it ends,
\* image_url is empty, and a download_image that directly follows another
\* sends no request.
C12_DownloadAlwaysEmptiesUrl ==
    [][/\ last'.op = "download_image" => image_url' = None
       /\ last.op = "download_image" /\ last'.op = "download_image" => last'.net = <<>>]_vars

\* p with the entry under key left out
Others(p, key) == SelectSeq(p, LAMBDA e : e.k # key)

\* C13: for a catalog color name and a catalog opacity token,
\* set_background_color stores .bgColor= as "0x", the opacity in upper case and
\* the catalog's RRGGBB of the color, and changes nothing else; for an opacity
\* that is not in the catalog list as the caller passed it (the default 'ff'
\* included) the plot parameters are unchanged.
C13_BackgroundColorValue ==
    [][\A a \in BackgroundColorArgs :
        last'.op = "set_background_color" /\ SetBackgroundColor(a[1], a[2]) =>
            /\ a[1] \in DictKeys(plot_options.colors) /\ InList(a[2], plot_options.opacities) =>
                /\ DictGet(plot_parameters', K_bgColor) =
                        <<"0", "x">> \o [i \in DOMAIN a[2] |-> UpperChar(a[2][i])]
                            \o DictGet(plot_options.colors, a[1])
                /\ Others(plot_parameters', K_bgColor) = Others(plot_parameters, K_bgColor)
                /\ Len(plot_parameters') = Len(plot_parameters)
            /\ ~InList(a[2], plot_options.opacities) => plot_parameters' = plot_parameters]_vars

\* C13 witness: the catalog color black was set with the catalog opacity 7f
C13_BlackAtHalfOpacity ==
    /\ last.op = "set_background_color"
    /\ last.out = "ok"
    /\ DictGet(plot_parameters, K_bgColor) = <<"0", "x", "7", "F", "0", "0", "0", "0", "0", "0">>

\* C14: for a marker of the catalog's marker_types and any size,
\* set_marker_style stores .marker= as the zero-based position of the first
\* occurrence of the marker in the list, "|" and the size, and changes
\* nothing else; for a marker that is not in the list the plot parameters are
\* unchanged.
C14_MarkerIndexAndSize ==
    [][\A a \in MarkerStyleArgs :
        last'.op = "set_marker_style" /\ SetMarkerStyle(a[1], a[2]) =>
            LET list == plot_options.marker_types
                at == {i \in DOMAIN list : list[i] = a[1]}
            IN  /\ at # {} =>
                    /\ DictGet(plot_parameters', K_marker) =
                            IntStr((CHOOSE i \in at : \A j \in at : i <= j) - 1)
                                \o <<"|">> \o a[2].v
                    /\ Others(plot_parameters', K_marker) = Others(plot_parameters, K_marker)
                    /\ Len(plot_parameters') = Len(plot_parameters)
                /\ at = {} => plot_parameters' = plot_parameters]_vars

\* C14 witness: the marker Dot, fourth in the list, was set with size 5
C14_DotSizeFive ==
    /\ last.op = "set_marker_style"
    /\ last.out = "ok"
    /\ DictGet(plot_parameters, K_marker) = <<"3", "|", "5">>

(***************************************************************************)
(* Properties of the registry and the description.                         *)
(***************************************************************************)
\* C15 as stated: when the refresh of a server change fails, in the request,
\* the parse or the dropping of the protocol columns, the registry table and
\* its count are those of before the call.
C15_FailedRefreshKeepsRegistry ==
    [][last'.op = "server" /\ last'.out \in {"raised", "fetch_failed"} =>
            datasets' = datasets /\ num_datasets' = num_datasets]_vars

\* C16 as stated: in every reachable state the description is empty or is
\* the description of the currently selected dataset, so that no variables
\* are reported when no dataset is selected.
C16_DescriptionOfSelectedDataset ==
    \/ dataset_description = EmptyFrame
    \/ /\ ~Falsy(dataset_id)
       /\ \E srv \in {S_serverA, S_serverB} : dataset_description = ServerInfo(srv, dataset_id)

\* C17 as stated: when dataset_id is assigned a registered id and the fetch
\* of the description fails, the new id is selected, the description is
\* empty, and dataset_variables gives an empty list and does not fail.
C17_FailedFetchGivesNoVariables ==
    [][\A id \in DatasetIdArgs :
        last'.op = "dataset_id" /\ last'.out = "raised" /\ SetDatasetId(id, "error") =>
            /\ dataset_id' = id
            /\ dataset_description' = EmptyFrame
            /\ dataset_variables' = {}
            /\ ~DatasetVariablesRaises']_vars

(***************************************************************************)
(* Properties of the setters over incomplete options.                      *)
(***************************************************************************)
\* the option types a setter reads from self._plot_options
Needs(op) ==
    CASE op = "set_color_bar" -> {"color_bars", "continuous_options", "scale_options"}
      [] op = "set_line_style" -> {"line_styles"}
      [] op = "set_marker_style" -> {"marker_types"}
      [] op = "set_legend" -> {"legend_options"}
      [] op \in {"set_x_range", "set_y_range"} -> {"scale_options"}
      [] op = "set_zoom_level" -> {"zoom_levels"}
      [] OTHER -> {}

\* C18 as stated: a setter called while an option type it depends on is
\* absent from the loaded options returns normally and leaves the plot
\* parameters as they were; no exception reaches the caller.
C18_AbsentOptionTypeFailsSoftly ==
    [][Needs(last'.op) \cap absent_option_types # {} =>
            /\ plot_parameters' = plot_parameters
            /\ last'.out # "raised"]_vars

(***************************************************************************)
(* Properties of the plot query.                                           *)
(***************************************************************************)
\* the keys of an ordered dict, in its iteration order
KeyOrder(d) == [i \in DOMAIN d |-> d[i].k]

\* C19: a successful build_image_request leaves as plot query the pieces
\* key + quote(value), one per plot parameter in the mapping's order and
\* separated by '&', each piece beginning with its key as written; the first
\* eight keys of the mapping are always the default keys in their default
\* order, a setter either keeps the order of the keys (the key was there) or
\* puts .zoom= or .trim= behind the others (its first setting since the last
\* reset), and reset_plot_parameters leaves the default keys alone.
C19_PlotQueryInInsertionOrder ==
    [][/\ last'.op = "build_image_request" /\ last'.out = "ok" =>
            /\ Segments(plot_query', "&") =
                    [i \in DOMAIN plot_parameters |->
                        plot_parameters[i].k \o quote(plot_parameters[i].v)]
            /\ \A i \in DOMAIN plot_parameters :
                    StartsWith(Segments(plot_query', "&")[i], plot_parameters[i].k)
       /\ SubSeq(KeyOrder(plot_parameters'), 1, 8) = KeyOrder(DefaultPlotParameters)
       /\ last'.op \in {"set_background_color", "set_legend", "set_zoom_level", "set_trim_pixels"} =>
            \/ KeyOrder(plot_parameters') = KeyOrder(plot_parameters)
            \/ \E key \in {K_zoom, K_trim} \ DictKeys(plot_parameters) :
                    /\ last'.op = (IF key = K_zoom THEN "set_zoom_level" ELSE "set_trim_pixels")
                    /\ last'.out = "ok"
                    /\ KeyOrder(plot_parameters') = Append(KeyOrder(plot_parameters), key)
       /\ last'.op = "reset_plot_parameters" =>
            KeyOrder(plot_parameters') = KeyOrder(DefaultPlotParameters)]_vars

\* C19 witness: a build has just succeeded on parameters where .trim= was
\* set before .zoom=
C19_BuiltWithTrimThenZoom ==
    /\ last.op = "build_image_request" /\ last.out = "ok"
    /\ Len(plot_parameters) = 10
    /\ plot_parameters[9].k = K_trim /\ plot_parameters[10].k = K_zoom
    /\ plot_query # None

(***************************************************************************)
(* Properties of add_constraint.                                           *)
(***************************************************************************)
\* C20: a successful add_constraint(variable, operator, value) leaves exactly
\* one entry under the key variable + operator, holding value; the number of
\* constraints is the same when the key was there and one more when it was
\* not; every entry under another key is as it was; and two calls that
\* differ in variable or operator have different keys.
C20_AddConstraintUpserts ==
    [][\A a \in ConstraintArgs :
        last'.op = "add_constraint" /\ last'.out = "ok" /\ AddConstraint(a[1], a[2], a[3]) =>
            LET key == a[1] \o a[2]
            IN  /\ Cardinality({i \in DOMAIN constraints' : constraints'[i].k = key}) = 1
                /\ DictGet(constraints', key) = a[3]
                /\ Len(constraints') =
                        IF DictHas(constraints, key) THEN Len(constraints)
                        ELSE Len(constraints) + 1
                /\ Others(constraints', key) = Others(constraints, key)
                /\ \A b \in ConstraintArgs :
                        <<b[1], b[2]>> # <<a[1], a[2]>> => b[1] \o b[2] # key]_vars

\* C20 witness: time>= was added, then time<=, then time>= again with
\* another value
C20_ReplacedBesideOtherOperator ==
    /\ last.op = "add_constraint" /\ last.out = "ok"
    /\ constraints = <<[k |-> S_time \o S_ge, v |-> S_NaN], [k |-> S_time \o S_le, v |-> S_2020]>>

(***************************************************************************)
(* Properties of download_image and the existing file.                     *)
(***************************************************************************)
\* C21: a download_image without clobber on a file that exists sends no
\* request, leaves the file and image_url as they were and raises nothing;
\* with clobber and a stored url the request is sent; the file changes only
\* when the response was 200; and after a skipped call image_url is still the
\* built url.
C21_ClobberDecidesOverwrite ==
    [][\A clobber \in BOOLEAN, outcome \in DownloadOutcomes :
        last'.op = "download_image" /\ DownloadImage(clobber, outcome) =>
            /\ file # "absent" /\ ~clobber =>
                    /\ last'.net = <<>>
                    /\ file' = file
                    /\ image_url' = image_url
                    /\ last'.out \in {"skipped", "no_url", "bad_path"}
            /\ clobber /\ ~Falsy(image_url) /\ outcome # "bad_path" => last'.net = <<"image">>
            /\ file' # file => outcome \in {"ok", "write_error"} /\ last'.net = <<"image">>
            /\ last'.out = "skipped" => ~Falsy(image_url') /\ image_url' = image_url]_vars

\* C21 witness: a call without clobber has just been skipped over an existing
\* file and the built url is still stored
C21_SkippedOverExistingFile ==
    /\ last.op = "download_image" /\ last.out = "skipped"
    /\ file = "old"
    /\ ~Falsy(image_url)

(***************************************************************************)
(* Properties of the setters' effect.                                      *)
(***************************************************************************)
\* the graphics-command key each setter writes
OwnKey(op) ==
    CASE op = "set_background_color" -> K_bgColor
      [] op = "set_color_bar" -> K_colorBar
      [] op = "set_marker_color" -> K_color
      [] op = "set_line_style" -> K_draw
      [] op = "set_marker_style" -> K_marker
      [] op = "set_legend" -> K_legend
      [] op = "set_x_range" -> K_xRange
      [] op = "set_y_range" -> K_yRange
      [] op = "set_zoom_level" -> K_zoom
      [] op = "set_trim_pixels" -> K_trim

SetterOps ==
    {"set_background_color", "set_color_bar", "set_marker_color", "set_line_style",
     "set_marker_style", "set_legend", "set_x_range", "set_y_range", "set_zoom_level",
     "set_trim_pixels"}

\* C22: a setter call that succeeds leaves its own key in the plot
\* parameters and every entry under another key as it was (same keys, same
\* values, same order); the constraints, the selected dataset, its
\* description, the registry, the server, the stored queries and image_url
\* are unchanged and the call sends no request.
C22_SetterWritesOnlyItsKey ==
    [][last'.op \in SetterOps /\ last'.out = "ok" =>
            /\ DictHas(plot_parameters', OwnKey(last'.op))
            /\ Others(plot_parameters', OwnKey(last'.op)) =
                    Others(plot_parameters, OwnKey(last'.op))
            /\ Len(plot_parameters') =
                    IF DictHas(plot_parameters, OwnKey(last'.op)) THEN Len(plot_parameters)
                    ELSE Len(plot_parameters) + 1
            /\ UNCHANGED <<constraints, dataset_id, dataset_description, datasets, num_datasets,
                           server, response, plot_query, constraints_query, image_url>>
            /\ last'.net = <<>>]_vars

\* C22 witness: a setter has just succeeded on parameters that already held
\* another change, with a dataset selected, a constraint set and a request
\* built
C22_SetterAfterBuildWithConstraint ==
    /\ last.op = "set_line_style" /\ last.out = "ok"
    /\ DictGet(plot_parameters, K_legend) = S_Off
    /\ constraints # <<>>
    /\ ~Falsy(dataset_id)
    /\ ~Falsy(image_url)

(***************************************************************************)
(* Properties of set_color_bar.                                            *)
(***************************************************************************)
\* the fields of the stored .colorBar= value
ColorBarFields(p) == Segments(DictGet(p, K_colorBar), "|")

\* C23: set_color_bar with a color bar of the options stores .colorBar= as
\* six fields separated by '|': the name, the continuous flag if it is C or D
\* and C otherwise, the scale if it is Linear or Log and Linear otherwise, the
\* minimum, the maximum and the number of sections (each empty when not
\* given); with any other name the call leaves the plot parameters as they
\* were; and the second and third field of the stored value are C or D and
\* Linear or Log before and after every step.
C23_ColorBarFallbacks ==
    [][/\ \A a \in ColorBarArgs :
            last'.op = "set_color_bar"
                /\ SetColorBar(a[1], a[2], a[3], a[4], a[5], a[6]) =>
                    IF InList(a[1], plot_options.color_bars)
                    THEN /\ last'.out = "ok"
                         /\ ColorBarFields(plot_parameters') =
                                <<a[1],
                                  IF a[2] \in {<<"C">>, <<"D">>} THEN a[2] ELSE <<"C">>,
                                  IF a[3] \in {S_Linear, S_Log} THEN a[3] ELSE S_Linear,
                                  IF a[4] = PyNone THEN <<>> ELSE Format(a[4]),
                                  IF a[5] = PyNone THEN <<>> ELSE Format(a[5]),
                                  IF PyFalsy(a[6]) THEN <<>> ELSE Format(a[6])>>
                    ELSE /\ last'.out = "invalid_color_bar"
                         /\ plot_parameters' = plot_parameters
       /\ \A p \in {plot_parameters, plot_parameters'} :
            /\ ColorBarFields(p)[2] \in {<<"C">>, <<"D">>}
            /\ ColorBarFields(p)[3] \in {S_Linear, S_Log}]_vars

\* C23 witness: a call with a valid name, an unknown continuous flag and an
\* unknown scale has just stored the fallbacks
C23_FallbacksStored ==
    /\ last.op = "set_color_bar" /\ last.out = "ok"
    /\ ColorBarFields(plot_parameters) = <<S_KT, <<"C">>, S_Linear, <<"0">>, <<"5">>, <<>>>>

(***************************************************************************)
(* Properties of set_x_range and set_y_range.                              *)
(***************************************************************************)
\* a bound as the caller's value: empty for None and '', the number otherwise
BoundField(value) == IF value \in {PyNone, PyStr(<<>>)} THEN <<>> ELSE Format(value)

\* C24 as stated: set_x_range / set_y_range with a scale of the options (or
\* none) and a boolean ascending store under .xRange= / .yRange= the four
\* fields min, max, true or false and the scale, where only a bound that is
\* None or '' is written empty and a numeric bound, 0 included, is written
\* as the number.
C24_RangeKeepsNumericBounds ==
    [][\A a \in RangeArgs :
        last'.op \in {"set_x_range", "set_y_range"} /\ last'.out = "ok"
            /\ (SetXRange(a[1], a[2], a[3], a[4]) \/ SetYRange(a[1], a[2], a[3], a[4])) =>
                Segments(DictGet(plot_parameters', OwnKey(last'.op)), "|") =
                    <<BoundField(a[1]), BoundField(a[2]),
                      IF a[3] = PyTrue THEN <<"t", "r", "u", "e">> ELSE <<"f", "a", "l", "s", "e">>,
                      IF Falsy(a[4]) THEN S_Linear ELSE a[4]>>]_vars

(***************************************************************************)
(* Properties of the background color.                                     *)
(***************************************************************************)
HexDigits == Digits \cup {"a", "b", "c", "d", "e", "f", "A", "B", "C", "D", "E", "F"}

\* C25 as stated: in every reachable state the value of .bgColor= is "0x", two
\* characters of opacity and six hexadecimal digits, since set_background_color
\* turns down every color that is neither a color name of the options nor
\* six hexadecimal digits.
C25_BackgroundColorIsHex ==
    LET value == DictGet(plot_parameters, K_bgColor)
    IN  /\ Len(value) = 10
        /\ \A i \in 5..10 : value[i] \in HexDigits

(***************************************************************************)
(* Properties of the key set of the plot parameters.                       *)
(***************************************************************************)
OptionalKeys == {K_size, K_trim, K_zoom}

\* the state allows one more setter call that adds a key
RoomForSetter == Budget /\ Overrides(plot_parameters) < MaxOverrides

\* C26 as stated: the keys of the plot parameters are the eight default keys
\* and possibly .size=, .trim= and .zoom=; a step that loses a key is a
\* reset_plot_parameters or a server change; and each of .size=, .trim= and
\* .zoom= that is not set can be set by one call of a public operation.
C26_KeySetAndOptionalKeys ==
    [][/\ DictKeys(DefaultPlotParameters) \subseteq DictKeys(plot_parameters')
       /\ DictKeys(plot_parameters') \subseteq DictKeys(DefaultPlotParameters) \cup OptionalKeys
       /\ ~(DictKeys(plot_parameters) \subseteq DictKeys(plot_parameters')) =>
            last'.op \in {"reset_plot_parameters", "server"}
       /\ \A key \in OptionalKeys :
            RoomForSetter /\ ~DictHas(plot_parameters, key) =>
                ENABLED (NextParams /\ DictHas(plot_parameters', key))]_vars

(***************************************************************************)
(* Properties of the server setter.                                        *)
(***************************************************************************)
\* C27 as stated: a server assignment whose value neither starts with 'http'
\* nor is a server shortcut changes nothing; any other server assignment
\* ends with no constraints, the default plot parameters, no dataset
\* selected and the plot query, the constraints query and image_url empty.
C27_ServerChangeResetsSession ==
    [][last'.op = "server" =>
            IF last'.out = "invalid"
            THEN UNCHANGED <<server, response, datasets, num_datasets, dataset_id,
                             dataset_description, constraints, plot_parameters,
                             plot_query, constraints_query, image_url, file>>
            ELSE /\ constraints' = <<>>
                 /\ plot_parameters' = DefaultPlotParameters
                 /\ dataset_id' = None
                 /\ plot_query' = None
                 /\ constraints_query' = None
                 /\ image_url' = None]_vars

(***************************************************************************)
(* Properties of the registry and the server.                              *)
(***************************************************************************)
\* C28 as stated: in every reachable state the ids of the registry are
\* datasets of the configured server, so that after any server assignment an
\* id only the previous server had cannot be selected.
C28_RegistryIsOfCurrentServer == datasets.index \subseteq ServerIndex(server)

\* C28 amended: the registry changes only in a server assignment; after one
\* whose refresh succeeds it holds the ids of the new server, after one whose
\* refresh fails it holds the ids it held before or those of the new server;
\* and dataset_id selects an id exactly when the registry holds it, so the
\* ids of the previous server stay selectable after a failed refresh.
C28_RegistryOfLastFetchedServer ==
    [][/\ datasets' # datasets => last'.op = "server"
       /\ last'.op = "server" /\ last'.out = "ok" => datasets'.index = ServerIndex(server')
       /\ last'.op = "server" /\ last'.out \in {"fetch_failed", "raised"} =>
            datasets'.index \in {datasets.index, ServerIndex(server')}
       /\ \A id \in DatasetIdArgs, outcome \in {"ok", "error"} :
            last'.op = "dataset_id" /\ SetDatasetId(id, outcome) =>
                IF id \in datasets.index
                THEN last'.out # "invalid" /\ dataset_id' = id
                ELSE last'.out = "invalid" /\ dataset_id' = dataset_id]_vars

\* C28 witness: after a server change whose refresh failed, an id that only
\* the previous server has was selected
C28_OldIdSelectedOnNewServer ==
    /\ last.op = "dataset_id" /\ last.out # "invalid"
    /\ server = S_serverB
    /\ dataset_id = S_d1
    /\ S_d1 \notin ServerIndex(server)

(***************************************************************************)
(* What build_image_request and download_image leave alone.                *)
(***************************************************************************)
\* C29: a build_image_request or download_image step, however it ends,
\* leaves the plot parameters, the constraints, the selected dataset, its
\* description and the registry as they were; the constraints change only in
\* add_constraint, remove_constraint, clear_constraints and a server change,
\* and the plot parameters only in a setter, reset_plot_parameters and a
\* server change.
C29_BuildAndDownloadKeepSession ==
    [][/\ last'.op \in {"build_image_request", "download_image"} =>
            UNCHANGED <<plot_parameters, constraints, dataset_id, dataset_description,
                        datasets, num_datasets>>
       /\ constraints' # constraints =>
            last'.op \in {"add_constraint", "remove_constraint", "clear_constraints", "server"}
       /\ plot_parameters' # plot_parameters =>
            last'.op \in SetterOps \cup {"reset_plot_parameters", "server"}]_vars

\* C29 witness: a download has just written the file while a constraint and
\* a changed plot parameter are still in place
C29_DownloadedWithSessionKept ==
    /\ last.op = "download_image" /\ last.out = "ok"
    /\ constraints # <<>>
    /\ plot_parameters # DefaultPlotParameters
    /\ ~Falsy(dataset_id)

(***************************************************************************)
(* Properties of the selected dataset.                                     *)
(***************************************************************************)
\* C30 as stated: in every reachable state no dataset is selected or the
\* selected id is in the index of the registry; dataset_id becomes an id
\* only in a dataset_id assignment that the registry accepts and becomes
\* empty only in a server change.
C30_SelectedIdIsRegistered ==
    [][/\ Falsy(dataset_id') \/ dataset_id' \in datasets'.index
       /\ dataset_id' # dataset_id =>
            IF Falsy(dataset_id')
            THEN last'.op = "server"
            ELSE last'.op = "dataset_id" /\ last'.out # "invalid"]_vars

====
